---- MODULE Spec2Model ----
(***************************************************************************)
(* Model of realtime-collab-kit: the relay server (src/src/server.ts) over *)
(* the in-process MemoryAdapter, and the two Backend Store variants        *)
(* (MemoryAdapter, RedisAdapter in src/examples/server.ts).                *)
(*                                                                         *)
(* Spec      : the relay server with the default MemoryAdapter.  Every     *)
(*             MemoryAdapter method runs to completion without suspending, *)
(*             so a message handler is one step; the only real suspension  *)
(*             point is `await auth.verifyToken(token)`, which splits the  *)
(*             authenticated join into Join and AuthReturn.                *)
(* StoreSpec : joinRoom/leaveRoom/updateUser call sequences applied to     *)
(*             both stores; a RedisAdapter call is two commands, taken one *)
(*             per step.                                                   *)
(* PubSubSpec: subscribe/unsubscribe/broadcast calls applied to both       *)
(*             stores; a Redis message arrives in a step of its own.       *)
(* ClientSpec: one client session (createCollabClient in                   *)
(*             src/examples/server.ts): its transports, reconnect and      *)
(*             heartbeat timers and its API calls.                         *)
(* ThrottleSpec: cursor() calls on a connected session against the clock.  *)
(* FaultSpec : the relay server when an awaited Adapter call or verifyToken *)
(*             rejects inside a message handler.                           *)
(* RaceSpec  : store calls for one user that are in flight together.       *)
(* ThrowSpec : PubSubSpec with a subscriber callback that throws.          *)
(***************************************************************************)
EXTENDS Integers, Sequences, FiniteSets, TLC

\* ---------------------------------------------------------------- bounds
NumConns == 3          \* WebSocket connections accepted by the server
MaxIds == 4            \* crypto.randomUUID() is called at most MaxIds times
MaxEvents == 5         \* handler steps the server runs in one behaviour
NumStoreUsers == 2     \* user ids used in the store-level specification
MaxCalls == 3          \* joinRoom/leaveRoom/updateUser calls issued in StoreSpec
MaxPubSub == 5         \* subscribe/unsubscribe/broadcast calls in PubSubSpec
MaxSockets == 7        \* transports one client session opens
ClientTicks == 3       \* clock ticks in ClientSpec
ClientCursorCalls == 2 \* cursor() calls in ClientSpec
ThrottleTicks == 7     \* clock ticks in ThrottleSpec
ThrottleCursorCalls == 3   \* cursor() calls in ThrottleSpec
FaultSteps == 2        \* steps of a FaultSpec behaviour left for the failing handler

Conns == 1..NumConns
RoomIds == {"default", "r1"}
NoRoom == ""                       \* data.roomId absent (falsy)
NoToken == ""                      \* data.token absent (falsy)
Tokens == {"tokA", "bad"}
NoMeta == "undefined"              \* metadata absent
ClientMetas == {"mc"}              \* data.metadata
NullCursor == "null"
Positions == {"p1"}                \* data.position
Events == {"evt"}                  \* data.event
NoUser == 0                        \* excludeUserId absent (undefined)

\* ------------------------------------------------------------- variables
VARIABLES
  auth,               \* config.auth is configured (fixed per behaviour)
  readyState,         \* ws.readyState of each connection
  connection,         \* closure variable `connection` of each ws
  connections,        \* keys of the Map `connections`
  rooms,              \* MemoryAdapter.rooms
  subscribers,        \* MemoryAdapter.subscribers
  roomSubscriptions,  \* keys of the Map `roomSubscriptions`
  pending,            \* join suspended at `await auth.verifyToken`
  nextId,             \* number of identities generated so far
  handled,            \* number of handler steps the server has run
  ev,                 \* the event handled by the last step
  sent,               \* messages put on each ws by the last step
  redisUsers,         \* Redis hashes  room:<id>:users
  redisMembers,       \* Redis sets    room:<id>:members
  task,               \* RedisAdapter calls in flight
  joined,             \* users whose last issued call was joinRoom, per room
  calls,              \* number of store calls issued
  storeEv,            \* the store call the last step issued or advanced
  raceLog,            \* the store calls issued so far in RaceSpec, in order
  redisSubscribers,   \* RedisAdapter.subscribers
  redisChannels,      \* channels the `sub` connection is subscribed to
  published,          \* messages Redis has published to `sub`, not yet received
  invoked,            \* callback invocations made by the last step
  subscribed,         \* <<room, handler>> whose last call was subscribe
  psEv,               \* the subscribe/unsubscribe/broadcast/delivery of the last step
  psCalls,            \* number of subscribe/unsubscribe/broadcast calls issued
  config,             \* ClientConfig given to createCollabClient
  limits,             \* clock horizon and cursor() calls of the behaviour
  sockets,            \* readyState of every WebSocket the client created
  clientWs,           \* `ws` of the client: index into sockets, NoSocket for null
  currentRoomId,
  connectionState,
  reconnectAttempts,
  reconnectTimer,     \* `reconnectTimer`: handle of the last timeout set
  reconnectTimeouts,  \* pending reconnect timeouts: handle -> delay
  heartbeatTimer,     \* an interval is running
  lastCursorUpdate,
  cursorThrottleTimer,    \* due time of the pending flush timeout, or NoTimer
  pendingCursorPosition,
  shouldReconnect,
  now,                \* Date.now()
  cev,                \* the client call or event of the last step
  wire,               \* messages the client sent in the last step
  emitted,            \* events emitted to listeners in the last step
  failedAttempts,     \* closes since the last successful open
  maxRetryErrors,     \* times 'Max reconnection attempts reached' was emitted
  callLog,            \* cursor() calls so far: time and position
  cursorLog           \* cursor messages sent so far: time and position

serverVars == <<auth, readyState, connection, connections, subscribers,
                roomSubscriptions, pending, nextId, handled, ev, sent>>
storeVars == <<redisUsers, redisMembers, task, joined, calls, storeEv, raceLog>>
pubsubVars == <<redisSubscribers, redisChannels, published, invoked, subscribed,
                psEv, psCalls>>
clientVars == <<config, limits, sockets, clientWs, currentRoomId, connectionState,
                reconnectAttempts, reconnectTimer, reconnectTimeouts,
                heartbeatTimer, lastCursorUpdate, cursorThrottleTimer,
                pendingCursorPosition, shouldReconnect, now, cev, wire, emitted,
                failedAttempts, maxRetryErrors, callLog, cursorLog>>
vars == <<auth, readyState, connection, connections, rooms, subscribers,
          roomSubscriptions, pending, nextId, handled, ev, sent,
          redisUsers, redisMembers, task, joined, calls, storeEv, raceLog,
          redisSubscribers, redisChannels, published, invoked, subscribed,
          psEv, psCalls,
          config, limits, sockets, clientWs, currentRoomId, connectionState,
          reconnectAttempts, reconnectTimer, reconnectTimeouts,
          heartbeatTimer, lastCursorUpdate, cursorThrottleTimer,
          pendingCursorPosition, shouldReconnect, now, cev, wire, emitted,
          failedAttempts, maxRetryErrors, callLog, cursorLog>>

\* ------------------------------------------------------------ data types
\* ClientConnection (closure variable); `null` is NullConn.
NullConn == [bound |-> FALSE]

ClientConnection(userId, roomId, metadata) ==
  [bound |-> TRUE, userId |-> userId, roomId |-> roomId, metadata |-> metadata]

\* User as created by joinRoom.
User(userId, roomId, metadata) ==
  [id |-> userId, roomId |-> roomId, cursor |-> NullCursor, typing |-> FALSE,
   metadata |-> metadata]

NoPending == [waiting |-> FALSE]

EmptyMap == [x \in {} |-> x]

Remove(f, k) == [x \in DOMAIN f \ {k} |-> f[x]]

Range(q) == {q[i] : i \in 1..Len(q)}

\* a || b on metadata values
OrElse(a, b) == IF a # NoMeta THEN a ELSE b

\* data.roomId || 'default'
RoomOrDefault(roomId) == IF roomId # NoRoom THEN roomId ELSE "default"

\* auth.verifyToken of the host application: one valid token, one invalid.
VerifyToken(token) ==
  CASE token = "tokA" -> [error |-> "", userId |-> 1, metadata |-> "ma"]
    [] OTHER          -> [error |-> "Invalid token", userId |-> NoUser,
                          metadata |-> NoMeta]

\* ---------------------------------------------------------- server messages
ErrorMsg(text) == [type |-> "error", error |-> text]
PresenceMsg(users) == [type |-> "presence", users |-> users]
UpdateMsg(user) == [type |-> "update", user |-> user]
CustomMsg(event, user) == [type |-> "custom", event |-> event, user |-> user]
PongMsg == [type |-> "pong"]

NotAuthenticated == ErrorMsg("Not authenticated. Send join message first.")
TokenMissing == ErrorMsg("Authentication required. Token missing.")

NoneSent == [c \in Conns |-> <<>>]

\* The event a handler step has processed: the message (or close) it was
\* given, the connection it came from and the branch the handler took.
Event(type, ws, path) ==
  [type |-> type, ws |-> ws, path |-> path, roomId |-> NoRoom, token |-> NoToken,
   position |-> NullCursor, isTyping |-> FALSE]

\* The Backend Store call a step has issued ("call"), advanced by one Redis
\* command ("command") or completed ("return"); member tells whether the user
\* was joined to the room when the call was issued.
StoreEvent(op, phase, roomId, userId, member) ==
  [op |-> op, phase |-> phase, roomId |-> roomId, userId |-> userId,
   member |-> member]

\* The subscribe, unsubscribe or broadcast call of the last step, or the
\* delivery of a published message to the RedisAdapter ("deliver").
PubSubEvent(op, roomId, handler, message) ==
  [op |-> op, roomId |-> roomId, handler |-> handler, message |-> message]

JoinEvent(ws, path, roomId, token) ==
  [Event("join", ws, path) EXCEPT !.roomId = roomId, !.token = token]

\* ------------------------------------------------------------ MemoryAdapter
MemJoinRoom(rs, roomId, userId, metadata) ==
  LET rs1 == IF roomId \in DOMAIN rs THEN rs ELSE rs @@ (roomId :> EmptyMap)
      room == rs1[roomId]
  IN IF userId \in DOMAIN room
       THEN rs1
       ELSE [rs1 EXCEPT ![roomId] = room @@ (userId :> User(userId, roomId, metadata))]

\* Mutant of MemLeaveRoom: the user is never deleted.
MemLeaveRoomKeepsUser(rs, roomId, userId) == rs

MemLeaveRoom(rs, roomId, userId) ==
  IF roomId \in DOMAIN rs
    THEN LET room == Remove(rs[roomId], userId)
         IN IF DOMAIN room = {}
              THEN Remove(rs, roomId)
              ELSE [rs EXCEPT ![roomId] = room]
    ELSE rs

\* updates is a record holding a subset of the User fields (Object.assign).
Assign(user, updates) ==
  [f \in DOMAIN user |-> IF f \in DOMAIN updates THEN updates[f] ELSE user[f]]

\* Mutant of MemUpdateUser: an absent user is created from the updates.
MemUpdateUserCreates(rs, roomId, userId, updates) ==
  LET rs1 == MemJoinRoom(rs, roomId, userId, NoMeta)
  IN [rs1 EXCEPT ![roomId][userId] = Assign(@, updates)]

MemUpdateUser(rs, roomId, userId, updates) ==
  IF roomId \in DOMAIN rs /\ userId \in DOMAIN rs[roomId]
    THEN [rs EXCEPT ![roomId][userId] = Assign(@, updates)]
    ELSE rs

MemGetUsers(rs, roomId) ==
  IF roomId \in DOMAIN rs
    THEN {rs[roomId][u] : u \in DOMAIN rs[roomId]}
    ELSE {}

\* Mutant of MemSubscribe: the callbacks are kept in a list, not a Set.
MemSubscribeAppends(subs, roomId, callback) ==
  LET s1 == IF roomId \in DOMAIN subs THEN subs ELSE subs @@ (roomId :> <<>>)
  IN [s1 EXCEPT ![roomId] = Append(@, callback)]

\* subscribers maps a room to its Set of callbacks, kept in insertion order.
MemSubscribe(subs, roomId, callback) ==
  LET s1 == IF roomId \in DOMAIN subs THEN subs ELSE subs @@ (roomId :> <<>>)
      cbs == s1[roomId]
  IN IF \E i \in 1..Len(cbs) : cbs[i] = callback
       THEN s1
       ELSE [s1 EXCEPT ![roomId] = Append(cbs, callback)]

MemUnsubscribe(subs, roomId, callback) ==
  IF roomId \in DOMAIN subs
    THEN LET cbs == SelectSeq(subs[roomId], LAMBDA c : c # callback)
         IN IF Len(cbs) = 0
              THEN Remove(subs, roomId)
              ELSE [subs EXCEPT ![roomId] = cbs]
    ELSE subs

\* The callbacks invoked by broadcast(roomId, message), in order.
MemBroadcast(subs, roomId) ==
  IF roomId \in DOMAIN subs THEN subs[roomId] ELSE <<>>

\* ------------------------------------------------------------- RedisAdapter
\* JSON.stringify drops a property whose value is undefined (of a User, only
\* metadata can be); the text is represented by the record of the properties
\* it spells out.
JSONStringify(obj) ==
  [f \in {g \in DOMAIN obj : ~(g = "metadata" /\ obj[g] = NoMeta)} |-> obj[f]]

\* JSON.parse rebuilds exactly the properties the text spells out.
JSONParse(text) == text

\* Reading user.metadata of a parsed User: undefined when absent.
MetadataOf(user) ==
  IF "metadata" \in DOMAIN user THEN user.metadata ELSE NoMeta

\* joinRoom: hset room:<id>:users, then sadd room:<id>:members.
RedisJoinHset(users, roomId, userId, metadata) ==
  [users EXCEPT ![roomId] =
     Remove(@, userId) @@ (userId :> JSONStringify(User(userId, roomId, metadata)))]

RedisJoinSadd(members, roomId, userId) ==
  [members EXCEPT ![roomId] = @ \cup {userId}]

\* leaveRoom: hdel room:<id>:users, then srem room:<id>:members.
RedisLeaveHdel(users, roomId, userId) ==
  [users EXCEPT ![roomId] = Remove(@, userId)]

RedisLeaveSrem(members, roomId, userId) ==
  [members EXCEPT ![roomId] = @ \ {userId}]

\* getUsers: smembers, hmget of those members, null replies filtered out.
RedisGetUsers(users, members, roomId) ==
  {JSONParse(users[roomId][u]) : u \in members[roomId] \cap DOMAIN users[roomId]}

UserIdsOf(userList) == {u.id : u \in userList}

\* JSON.stringify(message) of a ServerMessage: the User it carries loses an
\* undefined metadata.
MessageJSON(message) ==
  IF "user" \in DOMAIN message
    THEN [message EXCEPT !.user = JSONStringify(message.user)]
    ELSE message

\* RedisAdapter.subscribe: the first callback of a room also subscribes the
\* `sub` connection to the room's channel.
RedisSubscribe(subs, channels, roomId, callback) ==
  LET fresh == roomId \notin DOMAIN subs
  IN [subs |-> MemSubscribe(subs, roomId, callback),
      channels |-> IF fresh THEN channels \cup {roomId} ELSE channels]

\* RedisAdapter.unsubscribe: removing the last callback of a room also
\* unsubscribes the channel.
RedisUnsubscribe(subs, channels, roomId, callback) ==
  LET subs1 == MemUnsubscribe(subs, roomId, callback)
  IN [subs |-> subs1,
      channels |-> IF roomId \in DOMAIN subs /\ roomId \notin DOMAIN subs1
                     THEN channels \ {roomId}
                     ELSE channels]

\* RedisAdapter.broadcast: PUBLISH reaches `sub` only while it is subscribed
\* to the channel.
RedisPublish(queue, channels, roomId, message) ==
  IF roomId \in channels
    THEN Append(queue, [roomId |-> roomId, text |-> MessageJSON(message)])
    ELSE queue

\* Callbacks that throw when they are invoked.
Throwing == {"hx"}

\* The invocations callbacks.forEach(callback => callback(message)) makes:
\* forEach has no try/catch, so an exception thrown by a callback leaves the
\* loop and the callbacks after it are not invoked.
Invocations(store, cbs, message) ==
  LET thrown == {i \in 1..Len(cbs) : cbs[i] \in Throwing}
      n == IF thrown = {}
             THEN Len(cbs)
             ELSE CHOOSE i \in thrown : \A j \in thrown : i <= j
  IN [i \in 1..n |-> [store |-> store, handler |-> cbs[i], message |-> message]]

\* ------------------------------------------------------------ relay server
\* ws.send(JSON.stringify(msg)): the ws library drops the data when the
\* socket is no longer open.
WsSend(rstate, ws, msg) ==
  [c \in Conns |-> IF c = ws /\ rstate[c] = "OPEN" THEN <<msg>> ELSE <<>>]

\* const { _excludeUserId, ...payload } = message
StripMarker(message) ==
  [f \in DOMAIN message \ {"_excludeUserId"} |-> message[f]]

ExcludedOf(message) ==
  IF "_excludeUserId" \in DOMAIN message THEN message["_excludeUserId"] ELSE NoUser

\* The callback that subscribeToRoom(roomId) registers: what it sends to
\* connection c when invoked with message.
CallbackSends(roomId, message, conn, table, rstate, c) ==
  IF /\ c \in table
     /\ conn[c].roomId = roomId
     /\ ~(ExcludedOf(message) # NoUser /\ conn[c].userId = ExcludedOf(message))
     /\ rstate[c] = "OPEN"
    THEN <<StripMarker(message)>>
    ELSE <<>>

RECURSIVE InvokeAll(_, _, _, _, _, _)
InvokeAll(cbs, message, conn, table, rstate, c) ==
  IF cbs = <<>>
    THEN <<>>
    ELSE CallbackSends(Head(cbs), message, conn, table, rstate, c)
           \o InvokeAll(Tail(cbs), message, conn, table, rstate, c)

\* subscribeToRoom: a callback is identified by the roomId it captures.
SubscribeToRoom(rsubs, subs, roomId) ==
  IF roomId \in rsubs
    THEN [rsubs |-> rsubs, subs |-> subs]
    ELSE [rsubs |-> rsubs \cup {roomId}, subs |-> MemSubscribe(subs, roomId, roomId)]

UnsubscribeFromRoom(rsubs, subs, roomId) ==
  IF roomId \in rsubs
    THEN [rsubs |-> rsubs \ {roomId}, subs |-> MemUnsubscribe(subs, roomId, roomId)]
    ELSE [rsubs |-> rsubs, subs |-> subs]

\* broadcastToRoom over MemoryAdapter.broadcast: the messages each
\* connection is sent.
BroadcastToRoom(subs, conn, table, rstate, roomId, message, excludeUserId) ==
  LET payload == IF excludeUserId # NoUser
                   THEN message @@ ("_excludeUserId" :> excludeUserId)
                   ELSE message
  IN [c \in Conns |->
        InvokeAll(MemBroadcast(subs, roomId), payload, conn, table, rstate, c)]

\* (await adapter.getUsers(roomId)).find(u => u.id === userId)
FindUser(rs, roomId, userId) == {u \in MemGetUsers(rs, roomId) : u.id = userId}

\* Lines 53-62 and 80-89: bind the connection, join, subscribe, broadcast.
BindAndJoin(ws, userId, roomId, metadata) ==
  LET rooms1 == MemJoinRoom(rooms, roomId, userId, metadata)
      s1 == SubscribeToRoom(roomSubscriptions, subscribers, roomId)
  IN /\ connection' = [connection EXCEPT ![ws] = ClientConnection(userId, roomId, metadata)]
     /\ connections' = connections \cup {ws}
     /\ rooms' = rooms1
     /\ roomSubscriptions' = s1.rsubs
     /\ subscribers' = s1.subs
     /\ sent' = BroadcastToRoom(s1.subs, connection', connections', readyState,
                                roomId, PresenceMsg(MemGetUsers(rooms1, roomId)), NoUser)

\* Lines 37-46: room switch of an already bound connection.
SwitchRoom(ws, roomId) ==
  LET conn == connection[ws]
      rooms1 == MemLeaveRoom(rooms, conn.roomId, conn.userId)
      s1 == UnsubscribeFromRoom(roomSubscriptions, subscribers, conn.roomId)
      rooms2 == MemJoinRoom(rooms1, roomId, conn.userId, conn.metadata)
      s2 == SubscribeToRoom(s1.rsubs, s1.subs, roomId)
  IN /\ connection' = [connection EXCEPT ![ws].roomId = roomId]
     /\ rooms' = rooms2
     /\ roomSubscriptions' = s2.rsubs
     /\ subscribers' = s2.subs
     /\ sent' = BroadcastToRoom(s2.subs, connection', connections, readyState,
                                roomId, PresenceMsg(MemGetUsers(rooms2, roomId)), NoUser)
     /\ UNCHANGED connections

\* One handler step of the server.
Handle ==
  /\ handled < MaxEvents
  /\ handled' = handled + 1

\* ws.on('message') with data.type === 'join', up to the first suspension.
\* At most one join per connection waits for verifyToken at a time.
Join(ws, roomId, token, metadata) ==
  /\ readyState[ws] = "OPEN"
  /\ LET conn == connection[ws] IN
     IF conn.bound /\ roomId # NoRoom /\ roomId # conn.roomId
       THEN /\ SwitchRoom(ws, roomId)
            /\ ev' = JoinEvent(ws, "switch", roomId, token)
            /\ UNCHANGED <<pending, nextId>>
     ELSE IF ~auth
       THEN /\ nextId < MaxIds
            /\ nextId' = nextId + 1
            /\ BindAndJoin(ws, nextId + 1, RoomOrDefault(roomId), metadata)
            /\ ev' = JoinEvent(ws, "anonymous", roomId, token)
            /\ UNCHANGED pending
     ELSE IF token = NoToken
       THEN /\ sent' = WsSend(readyState, ws, TokenMissing)
            /\ ev' = JoinEvent(ws, "missing", roomId, token)
            /\ UNCHANGED <<connection, connections, rooms, subscribers,
                           roomSubscriptions, pending, nextId>>
     ELSE /\ ~pending[ws].waiting
          /\ pending' = [pending EXCEPT ![ws] =
                           [waiting |-> TRUE, token |-> token, roomId |-> roomId,
                            metadata |-> metadata]]
          /\ sent' = NoneSent
          /\ ev' = JoinEvent(ws, "verify", roomId, token)
          /\ UNCHANGED <<connection, connections, rooms, subscribers,
                         roomSubscriptions, nextId>>
  /\ UNCHANGED <<auth, readyState>>
  /\ Handle
  /\ UNCHANGED <<storeVars, pubsubVars, clientVars>>

\* Line 74: if (authResult.error)
AuthRejected(authResult) == authResult.error # ""

\* Lines 72-90: verifyToken has returned.
AuthReturn(ws) ==
  /\ pending[ws].waiting
  /\ pending' = [pending EXCEPT ![ws] = NoPending]
  /\ LET data == pending[ws]
         authResult == VerifyToken(data.token)
     IN IF AuthRejected(authResult)
          THEN /\ sent' = WsSend(readyState, ws, ErrorMsg(authResult.error))
               /\ ev' = [Event("authReturn", ws, "rejected") EXCEPT
                          !.roomId = data.roomId, !.token = data.token]
               /\ UNCHANGED <<connection, connections, rooms, subscribers,
                              roomSubscriptions>>
          ELSE /\ BindAndJoin(ws, authResult.userId, RoomOrDefault(data.roomId),
                              OrElse(authResult.metadata, data.metadata))
               /\ ev' = [Event("authReturn", ws, "accepted") EXCEPT
                          !.roomId = data.roomId, !.token = data.token]
  /\ UNCHANGED <<auth, readyState, nextId>>
  /\ Handle
  /\ UNCHANGED <<storeVars, pubsubVars, clientVars>>

\* Mutant of Unauthenticated: the message is dropped without a reply.
UnauthenticatedSilent(ws, type) ==
  /\ ~connection[ws].bound
  /\ sent' = NoneSent
  /\ ev' = Event(type, ws, "unauthenticated")
  /\ UNCHANGED <<rooms, subscribers, roomSubscriptions>>

\* Lines 93-96: the reply of a connection whose `connection` is null.
Unauthenticated(ws, type) ==
  /\ ~connection[ws].bound
  /\ sent' = WsSend(readyState, ws, NotAuthenticated)
  /\ ev' = Event(type, ws, "unauthenticated")
  /\ UNCHANGED <<rooms, subscribers, roomSubscriptions>>

\* data.type === 'leave'
Leave(ws) ==
  /\ readyState[ws] = "OPEN"
  /\ \/ Unauthenticated(ws, "leave")
     \/ /\ connection[ws].bound
        /\ LET conn == connection[ws]
               rooms1 == MemLeaveRoom(rooms, conn.roomId, conn.userId)
               s1 == UnsubscribeFromRoom(roomSubscriptions, subscribers, conn.roomId)
           IN /\ rooms' = rooms1
              /\ roomSubscriptions' = s1.rsubs
              /\ subscribers' = s1.subs
              /\ sent' = BroadcastToRoom(s1.subs, connection, connections, readyState,
                                         conn.roomId,
                                         PresenceMsg(MemGetUsers(rooms1, conn.roomId)), NoUser)
        /\ ev' = Event("leave", ws, "bound")
  /\ UNCHANGED <<auth, readyState, connection, connections, pending, nextId>>
  /\ Handle
  /\ UNCHANGED <<storeVars, pubsubVars, clientVars>>

\* Lines 108-112 and 119-123: updateUser, re-read the user, broadcast it.
UpdateAndBroadcast(ws, updates) ==
  LET conn == connection[ws]
      rooms1 == MemUpdateUser(rooms, conn.roomId, conn.userId, updates)
      found == FindUser(rooms1, conn.roomId, conn.userId)
  IN /\ rooms' = rooms1
     /\ sent' = IF found # {}
                  THEN BroadcastToRoom(subscribers, connection, connections, readyState,
                                       conn.roomId, UpdateMsg(CHOOSE u \in found : TRUE),
                                       conn.userId)
                  ELSE NoneSent
     /\ UNCHANGED <<subscribers, roomSubscriptions>>

\* data.type === 'cursor' with a position
Cursor(ws, position) ==
  /\ readyState[ws] = "OPEN"
  /\ \/ Unauthenticated(ws, "cursor")
     \/ /\ connection[ws].bound
        /\ UpdateAndBroadcast(ws, [cursor |-> position])
        /\ ev' = [Event("cursor", ws, "bound") EXCEPT !.position = position]
  /\ UNCHANGED <<auth, readyState, connection, connections, pending, nextId>>
  /\ Handle
  /\ UNCHANGED <<storeVars, pubsubVars, clientVars>>

\* data.type === 'typing' with a boolean isTyping
Typing(ws, isTyping) ==
  /\ readyState[ws] = "OPEN"
  /\ \/ Unauthenticated(ws, "typing")
     \/ /\ connection[ws].bound
        /\ UpdateAndBroadcast(ws, [typing |-> isTyping])
        /\ ev' = [Event("typing", ws, "bound") EXCEPT !.isTyping = isTyping]
  /\ UNCHANGED <<auth, readyState, connection, connections, pending, nextId>>
  /\ Handle
  /\ UNCHANGED <<storeVars, pubsubVars, clientVars>>

\* data.type === 'ping'
Ping(ws) ==
  /\ readyState[ws] = "OPEN"
  /\ \/ Unauthenticated(ws, "ping")
     \/ /\ connection[ws].bound
        /\ sent' = WsSend(readyState, ws, PongMsg)
        /\ ev' = Event("ping", ws, "bound")
        /\ UNCHANGED <<rooms, subscribers, roomSubscriptions>>
  /\ UNCHANGED <<auth, readyState, connection, connections, pending, nextId>>
  /\ Handle
  /\ UNCHANGED <<storeVars, pubsubVars, clientVars>>

\* data.type === 'pong'
Pong(ws) ==
  /\ readyState[ws] = "OPEN"
  /\ \/ Unauthenticated(ws, "pong")
     \/ /\ connection[ws].bound
        /\ sent' = NoneSent
        /\ ev' = Event("pong", ws, "bound")
        /\ UNCHANGED <<rooms, subscribers, roomSubscriptions>>
  /\ UNCHANGED <<auth, readyState, connection, connections, pending, nextId>>
  /\ Handle
  /\ UNCHANGED <<storeVars, pubsubVars, clientVars>>

\* data.type === 'custom' with an event name
Custom(ws, event) ==
  /\ readyState[ws] = "OPEN"
  /\ \/ Unauthenticated(ws, "custom")
     \/ /\ connection[ws].bound
        /\ LET conn == connection[ws]
               found == FindUser(rooms, conn.roomId, conn.userId)
               user == IF found # {}
                         THEN CHOOSE u \in found : TRUE
                         ELSE User(conn.userId, conn.roomId, conn.metadata)
           IN sent' = BroadcastToRoom(subscribers, connection, connections, readyState,
                                      conn.roomId, CustomMsg(event, user), conn.userId)
        /\ ev' = Event("custom", ws, "bound")
        /\ UNCHANGED <<rooms, subscribers, roomSubscriptions>>
  /\ UNCHANGED <<auth, readyState, connection, connections, pending, nextId>>
  /\ Handle
  /\ UNCHANGED <<storeVars, pubsubVars, clientVars>>

\* ws.on('close')
Close(ws) ==
  /\ readyState[ws] = "OPEN"
  /\ readyState' = [readyState EXCEPT ![ws] = "CLOSED"]
  /\ IF connection[ws].bound
       THEN LET conn == connection[ws]
                rooms1 == MemLeaveRoom(rooms, conn.roomId, conn.userId)
                s1 == UnsubscribeFromRoom(roomSubscriptions, subscribers, conn.roomId)
            IN /\ rooms' = rooms1
               /\ roomSubscriptions' = s1.rsubs
               /\ subscribers' = s1.subs
               /\ sent' = BroadcastToRoom(s1.subs, connection, connections, readyState',
                                          conn.roomId,
                                          PresenceMsg(MemGetUsers(rooms1, conn.roomId)), NoUser)
               /\ connections' = connections \ {ws}
       ELSE /\ sent' = NoneSent
            /\ UNCHANGED <<rooms, subscribers, roomSubscriptions, connections>>
  /\ ev' = Event("close", ws, IF connection[ws].bound THEN "bound" ELSE "unbound")
  /\ UNCHANGED <<auth, connection, pending, nextId>>
  /\ Handle
  /\ UNCHANGED <<storeVars, pubsubVars, clientVars>>

\* ------------------------------------------------------------------ client
NoSocket == 0                      \* ws === null
NoTimer == 0                       \* no pending timeout (null or fired handle)
Epoch == 1000                      \* Date.now() when the session is created
TickMs == 10                       \* granularity of the clock
ClientPositions == {"p1", "p2"}    \* {x:1,y:1} and {x:2,y:2}

\* ReconnectConfig after normalisation (lines 229-237).
ReconnectDefault ==
  [enabled |-> TRUE, maxRetries |-> 6, initialDelay |-> 1000, maxDelay |-> 30000,
   backoffFactor |-> 2]
ReconnectShort ==
  [enabled |-> TRUE, maxRetries |-> 2, initialDelay |-> 100, maxDelay |-> 250,
   backoffFactor |-> 3]
ReconnectOff ==
  [enabled |-> FALSE, maxRetries |-> 10, initialDelay |-> 1000, maxDelay |-> 30000,
   backoffFactor |-> 2]

ClientConfig(token, reconnect, throttleCursor) ==
  [token |-> token, roomId |-> "default", metadata |-> "mc", reconnect |-> reconnect,
   throttleCursor |-> throttleCursor, heartbeatInterval |-> 30000]

ClientConfigs ==
  {ClientConfig(NoToken, ReconnectDefault, 20),
   ClientConfig(NoToken, ReconnectShort, 20),
   ClientConfig("tokA", ReconnectOff, 20)}

ThrottleConfig == ClientConfig(NoToken, ReconnectDefault, 50)

ClientLimits ==
  [horizon |-> Epoch + ClientTicks * TickMs, cursorCalls |-> ClientCursorCalls]
ThrottleLimits ==
  [horizon |-> Epoch + ThrottleTicks * TickMs, cursorCalls |-> ThrottleCursorCalls]

\* The call or event a client step has processed.
ClientEvent(op, s, arg) ==
  [op |-> op, s |-> s, arg |-> arg, k |-> 0, delay |-> 0]

RECURSIVE Pow(_, _)
Pow(b, k) == IF k = 0 THEN 1 ELSE b * Pow(b, k - 1)

Min(a, b) == IF a <= b THEN a ELSE b

\* Mutant of ReconnectDelay: the delay is not capped.
ReconnectDelayUncapped(reconnect, attempts) ==
  reconnect.initialDelay * Pow(reconnect.backoffFactor, attempts)

\* Lines 333-336.
ReconnectDelay(reconnect, attempts) ==
  Min(reconnect.initialDelay * Pow(reconnect.backoffFactor, attempts),
      reconnect.maxDelay)

\* Mutant of Exhausted: the else-branch of onclose is never taken.
ExhaustedNever(reconnect, attempts) == FALSE

\* Line 344.
Exhausted(reconnect, attempts) == attempts >= reconnect.maxRetries

\* ws?.readyState === WebSocket.OPEN
IsOpen(socks, w) == w # NoSocket /\ socks[w] = "OPEN"

\* Mutant of SendMessage: readyState is not checked.
SendMessageUnchecked(socks, w, type, payload) ==
  <<[type |-> type] @@ payload>>

\* sendMessage(type, payload): the messages put on the wire.
SendMessage(socks, w, type, payload) ==
  IF IsOpen(socks, w) THEN <<[type |-> type] @@ payload>> ELSE <<>>

\* setState(newState): the events it emits.
SetState(oldState, newState) ==
  IF oldState # newState /\ newState \in {"connected", "disconnected"}
    THEN <<newState>>
    ELSE <<>>

\* Mutant of ClearTimeout: the timeout stays pending.
ClearTimeoutForgets(timeouts, handle) == timeouts

\* clearTimeout(handle)
ClearTimeout(timeouts, handle) ==
  [h \in DOMAIN timeouts \ {handle} |-> timeouts[h]]

\* flushCursorUpdate(): the messages it sends.
FlushCursorUpdate(socks, w, position, roomId) ==
  IF position # NullCursor
    THEN SendMessage(socks, w, "cursor", [position |-> position, roomId |-> roomId])
    ELSE <<>>

\* The cursor messages among msgs, stamped with the time t.
CursorsAt(msgs, t) ==
  [i \in 1..Len(msgs) |-> [at |-> t, position |-> msgs[i].position]]

\* The session as createCollabClient(cfg) returns it: connect() has created
\* the first transport.
ClientCreated(cfg, lim) ==
  /\ config = cfg
  /\ limits = lim
  /\ sockets = <<"CONNECTING">>
  /\ clientWs = 1
  /\ currentRoomId = cfg.roomId
  /\ connectionState = "connecting"
  /\ reconnectAttempts = 0
  /\ reconnectTimer = NoTimer
  /\ reconnectTimeouts = EmptyMap
  /\ heartbeatTimer = FALSE
  /\ lastCursorUpdate = 0
  /\ cursorThrottleTimer = NoTimer
  /\ pendingCursorPosition = NullCursor
  /\ shouldReconnect = TRUE
  /\ now = Epoch
  /\ cev = ClientEvent("create", 1, "")
  /\ wire = <<>>
  /\ emitted = <<>>
  /\ failedAttempts = 0
  /\ maxRetryErrors = 0
  /\ callLog = <<>>
  /\ cursorLog = <<>>

\* The relay server and the stores as constructed.
ServerCreated ==
  /\ auth \in BOOLEAN
  /\ readyState = [c \in Conns |-> "OPEN"]
  /\ connection = [c \in Conns |-> NullConn]
  /\ connections = {}
  /\ rooms = EmptyMap
  /\ subscribers = EmptyMap
  /\ roomSubscriptions = {}
  /\ pending = [c \in Conns |-> NoPending]
  /\ nextId = 0
  /\ handled = 0
  /\ ev = Event("init", 0, "")
  /\ sent = NoneSent
  /\ redisUsers = [r \in RoomIds |-> EmptyMap]
  /\ redisMembers = [r \in RoomIds |-> {}]
  /\ task = EmptyMap
  /\ joined = [r \in RoomIds |-> {}]
  /\ calls = 0
  /\ storeEv = StoreEvent("init", "", NoRoom, NoUser, FALSE)
  /\ raceLog = <<>>
  /\ redisSubscribers = EmptyMap
  /\ redisChannels = {}
  /\ published = <<>>
  /\ invoked = <<>>
  /\ subscribed = {}
  /\ psEv = PubSubEvent("init", NoRoom, "", PongMsg)
  /\ psCalls = 0

Init ==
  /\ ServerCreated
  /\ ClientCreated(ThrottleConfig, ClientLimits)

\* A client sends a token only to a server that is configured with auth.
TokenInputs == IF auth THEN Tokens \cup {NoToken} ELSE {NoToken}

Next ==
  \/ \E ws \in Conns, roomId \in RoomIds \cup {NoRoom},
        token \in TokenInputs, metadata \in ClientMetas :
       Join(ws, roomId, token, metadata)
  \/ \E ws \in Conns : AuthReturn(ws)
  \/ \E ws \in Conns : Leave(ws)
  \/ \E ws \in Conns, position \in Positions : Cursor(ws, position)
  \/ \E ws \in Conns, isTyping \in BOOLEAN : Typing(ws, isTyping)
  \/ \E ws \in Conns : Ping(ws)
  \/ \E ws \in Conns : Pong(ws)
  \/ \E ws \in Conns, event \in Events : Custom(ws, event)
  \/ \E ws \in Conns : Close(ws)

Spec == Init /\ [][Next]_vars

\* ------------------------------------------------------- Backend Store calls
StoreUsers == 1..NumStoreUsers
StoreMetas == {NoMeta, "m1"}
StoreUpdates == {[cursor |-> "p1"], [typing |-> TRUE]}
RaceRoom == "r1"                   \* the room of the racing calls

\* A RedisAdapter joinRoom/leaveRoom call for (roomId, userId) is in flight.
InFlight(roomId, userId) ==
  \E id \in DOMAIN task : task[id].roomId = roomId /\ task[id].userId = userId

\* joinRoom(roomId, userId, metadata) is called on both stores.  The
\* MemoryAdapter body has no suspension point and completes at the call; the
\* RedisAdapter call issues its first command when RedisStep runs.  Calls that
\* overlap are for distinct users.
StoreJoinRoom(roomId, userId, metadata) ==
  /\ calls < MaxCalls
  /\ ~InFlight(roomId, userId)
  /\ calls' = calls + 1
  /\ rooms' = MemJoinRoom(rooms, roomId, userId, metadata)
  /\ task' = task @@ (calls + 1 :> [op |-> "joinRoom", roomId |-> roomId,
                                    userId |-> userId, metadata |-> metadata,
                                    pc |-> 1])
  /\ joined' = [joined EXCEPT ![roomId] = @ \cup {userId}]
  /\ storeEv' = StoreEvent("joinRoom", "call", roomId, userId, userId \in joined[roomId])
  /\ UNCHANGED <<redisUsers, redisMembers, raceLog>>
  /\ UNCHANGED <<serverVars, pubsubVars, clientVars>>

\* leaveRoom(roomId, userId) is called on both stores.
StoreLeaveRoom(roomId, userId) ==
  /\ calls < MaxCalls
  /\ ~InFlight(roomId, userId)
  /\ calls' = calls + 1
  /\ rooms' = MemLeaveRoom(rooms, roomId, userId)
  /\ task' = task @@ (calls + 1 :> [op |-> "leaveRoom", roomId |-> roomId,
                                    userId |-> userId, metadata |-> NoMeta,
                                    pc |-> 1])
  /\ joined' = [joined EXCEPT ![roomId] = @ \ {userId}]
  /\ storeEv' = StoreEvent("leaveRoom", "call", roomId, userId, userId \in joined[roomId])
  /\ UNCHANGED <<redisUsers, redisMembers, raceLog>>
  /\ UNCHANGED <<serverVars, pubsubVars, clientVars>>

\* updateUser(roomId, userId, updates) is called on both stores.
StoreUpdateUser(roomId, userId, updates) ==
  /\ calls < MaxCalls
  /\ ~InFlight(roomId, userId)
  /\ calls' = calls + 1
  /\ rooms' = MemUpdateUser(rooms, roomId, userId, updates)
  /\ task' = task @@ (calls + 1 :> [op |-> "updateUser", roomId |-> roomId,
                                    userId |-> userId, metadata |-> NoMeta,
                                    pc |-> 1, updates |-> updates])
  /\ storeEv' = StoreEvent("updateUser", "call", roomId, userId, userId \in joined[roomId])
  /\ UNCHANGED <<redisUsers, redisMembers, joined, raceLog>>
  /\ UNCHANGED <<serverVars, pubsubVars, clientVars>>

\* RedisAdapter.updateUser, first command: hget; the call returns at once
\* when the reply is null.
RedisUpdateHget(id) ==
  LET t == task[id] IN
  /\ IF t.userId \in DOMAIN redisUsers[t.roomId]
       THEN task' = [task EXCEPT ![id] =
                       [op |-> t.op, roomId |-> t.roomId, userId |-> t.userId,
                        metadata |-> t.metadata, pc |-> 2, updates |-> t.updates,
                        userData |-> redisUsers[t.roomId][t.userId]]]
       ELSE task' = Remove(task, id)
  /\ UNCHANGED <<redisUsers, redisMembers>>

\* RedisAdapter.updateUser, second command: hset of the merged user.
RedisUpdateHset(users, roomId, userId, userData, updates) ==
  [users EXCEPT ![roomId] =
     Remove(@, userId) @@ (userId :> JSONStringify(Assign(JSONParse(userData), updates)))]

\* Redis executes the next command of the call id; the call returns after
\* its last command.
RedisStep(id) ==
  /\ id \in DOMAIN task
  /\ LET t == task[id] IN
     /\ IF t.op = "updateUser"
          THEN IF t.pc = 1
                 THEN RedisUpdateHget(id)
                 ELSE /\ redisUsers' = RedisUpdateHset(redisUsers, t.roomId, t.userId,
                                                       t.userData, t.updates)
                      /\ task' = Remove(task, id)
                      /\ UNCHANGED redisMembers
        ELSE IF t.pc = 1
          THEN /\ redisUsers' = IF t.op = "joinRoom"
                                  THEN RedisJoinHset(redisUsers, t.roomId, t.userId, t.metadata)
                                  ELSE RedisLeaveHdel(redisUsers, t.roomId, t.userId)
               /\ task' = [task EXCEPT ![id].pc = 2]
               /\ UNCHANGED redisMembers
          ELSE /\ redisMembers' = IF t.op = "joinRoom"
                                    THEN RedisJoinSadd(redisMembers, t.roomId, t.userId)
                                    ELSE RedisLeaveSrem(redisMembers, t.roomId, t.userId)
               /\ task' = Remove(task, id)
               /\ UNCHANGED redisUsers
     /\ storeEv' = StoreEvent(t.op, IF id \in DOMAIN task' THEN "command" ELSE "return",
                              t.roomId, t.userId, t.userId \in joined[t.roomId])
  /\ UNCHANGED <<rooms, joined, calls, raceLog>>
  /\ UNCHANGED <<serverVars, pubsubVars, clientVars>>

StoreInit ==
  /\ Init
  /\ auth = FALSE

StoreNext ==
  \/ \E roomId \in RoomIds, userId \in StoreUsers, metadata \in StoreMetas :
       StoreJoinRoom(roomId, userId, metadata)
  \/ \E roomId \in RoomIds, userId \in StoreUsers : StoreLeaveRoom(roomId, userId)
  \/ \E roomId \in RoomIds, userId \in StoreUsers, updates \in StoreUpdates :
       StoreUpdateUser(roomId, userId, updates)
  \/ \E id \in 1..MaxCalls : RedisStep(id)

StoreSpec == StoreInit /\ [][StoreNext]_vars

\* ------------------------------------------- Backend Store calls, racing
\* The relay server awaits each store call, but handlers of different
\* connections (and the close handler of the same one) interleave at every
\* await: an updateUser may be in flight together with a leaveRoom or another
\* updateUser for the same user.
RaceCall(op, roomId, userId, updates) ==
  [op |-> op, roomId |-> roomId, userId |-> userId, updates |-> updates]

\* A call with one of the operations ops is in flight for (roomId, userId).
Conflicting(roomId, userId, ops) ==
  \E id \in DOMAIN task :
    task[id].roomId = roomId /\ task[id].userId = userId /\ task[id].op \in ops

\* One call issued on both stores.  The MemoryAdapter methods contain no
\* await: each runs to completion at the call.
RaceIssue(op, roomId, userId, metadata, updates) ==
  /\ calls < MaxCalls
  /\ calls' = calls + 1
  /\ task' = task @@ (calls + 1 :> [op |-> op, roomId |-> roomId,
                                    userId |-> userId, metadata |-> metadata,
                                    pc |-> 1, updates |-> updates])
  /\ storeEv' = StoreEvent(op, "call", roomId, userId, userId \in joined[roomId])
  /\ raceLog' = Append(raceLog, RaceCall(op, roomId, userId, updates))
  /\ UNCHANGED <<redisUsers, redisMembers>>
  /\ UNCHANGED <<serverVars, pubsubVars, clientVars>>

\* joinRoom overlaps no other call for the same user.
RaceJoinRoom(roomId, userId, metadata) ==
  /\ ~InFlight(roomId, userId)
  /\ rooms' = MemJoinRoom(rooms, roomId, userId, metadata)
  /\ joined' = [joined EXCEPT ![roomId] = @ \cup {userId}]
  /\ RaceIssue("joinRoom", roomId, userId, metadata, EmptyMap)

\* leaveRoom may be called while updateUser calls for the user are in flight.
RaceLeaveRoom(roomId, userId) ==
  /\ ~Conflicting(roomId, userId, {"joinRoom", "leaveRoom"})
  /\ rooms' = MemLeaveRoom(rooms, roomId, userId)
  /\ joined' = [joined EXCEPT ![roomId] = @ \ {userId}]
  /\ RaceIssue("leaveRoom", roomId, userId, NoMeta, EmptyMap)

\* updateUser may be called while leaveRoom or updateUser calls for the user
\* are in flight.
RaceUpdateUser(roomId, userId, updates) ==
  /\ ~Conflicting(roomId, userId, {"joinRoom"})
  /\ rooms' = MemUpdateUser(rooms, roomId, userId, updates)
  /\ UNCHANGED joined
  /\ RaceIssue("updateUser", roomId, userId, NoMeta, updates)

RaceNext ==
  \/ \E userId \in StoreUsers, metadata \in StoreMetas :
       RaceJoinRoom(RaceRoom, userId, metadata)
  \/ \E userId \in StoreUsers : RaceLeaveRoom(RaceRoom, userId)
  \/ \E userId \in StoreUsers, updates \in StoreUpdates :
       RaceUpdateUser(RaceRoom, userId, updates)
  \/ \E id \in 1..MaxCalls : RedisStep(id)

RaceSpec == StoreInit /\ [][RaceNext]_vars

\* ------------------------------------------------- Backend Store pub/sub
Handlers == {"h1", "h2"}
PubSubMessages == {PresenceMsg({}), UpdateMsg(User(1, "r1", NoMeta))}

\* One subscribe, unsubscribe or broadcast call; calls are issued one after
\* the other, each after the previous one has returned.
PubSubCall ==
  /\ psCalls < MaxPubSub
  /\ psCalls' = psCalls + 1
  /\ UNCHANGED <<auth, readyState, connection, connections, rooms,
                 roomSubscriptions, pending, nextId, handled, ev, sent>>
  /\ UNCHANGED <<storeVars, clientVars>>

\* subscribe(roomId, h) on both stores.
PsSubscribe(roomId, h) ==
  LET r == RedisSubscribe(redisSubscribers, redisChannels, roomId, h)
  IN /\ subscribers' = MemSubscribe(subscribers, roomId, h)
     /\ redisSubscribers' = r.subs
     /\ redisChannels' = r.channels
     /\ subscribed' = subscribed \cup {<<roomId, h>>}
     /\ invoked' = <<>>
     /\ psEv' = PubSubEvent("subscribe", roomId, h, PongMsg)
     /\ UNCHANGED published
     /\ PubSubCall

\* unsubscribe(roomId, h) on both stores.
PsUnsubscribe(roomId, h) ==
  LET r == RedisUnsubscribe(redisSubscribers, redisChannels, roomId, h)
  IN /\ subscribers' = MemUnsubscribe(subscribers, roomId, h)
     /\ redisSubscribers' = r.subs
     /\ redisChannels' = r.channels
     /\ subscribed' = subscribed \ {<<roomId, h>>}
     /\ invoked' = <<>>
     /\ psEv' = PubSubEvent("unsubscribe", roomId, h, PongMsg)
     /\ UNCHANGED published
     /\ PubSubCall

\* broadcast(roomId, message) on both stores: the MemoryAdapter invokes its
\* callbacks during the call, the RedisAdapter publishes.
PsBroadcast(roomId, message) ==
  /\ invoked' = Invocations("memory", MemBroadcast(subscribers, roomId), message)
  /\ published' = RedisPublish(published, redisChannels, roomId, message)
  /\ psEv' = PubSubEvent("broadcast", roomId, "", message)
  /\ UNCHANGED <<subscribers, redisSubscribers, redisChannels, subscribed>>
  /\ PubSubCall

\* this.sub.on('message'): the oldest published message arrives.
PsDeliver ==
  /\ published # <<>>
  /\ LET roomId == Head(published).roomId
         data == JSONParse(Head(published).text)
     IN /\ invoked' = Invocations("redis", MemBroadcast(redisSubscribers, roomId), data)
        /\ psEv' = PubSubEvent("deliver", roomId, "", data)
  /\ published' = Tail(published)
  /\ UNCHANGED <<subscribers, redisSubscribers, redisChannels, subscribed, psCalls>>
  /\ UNCHANGED <<auth, readyState, connection, connections, rooms,
                 roomSubscriptions, pending, nextId, handled, ev, sent>>
  /\ UNCHANGED <<storeVars, clientVars>>

PubSubInit ==
  /\ Init
  /\ auth = FALSE

PubSubNext ==
  \/ \E roomId \in RoomIds, h \in Handlers : PsSubscribe(roomId, h)
  \/ \E roomId \in RoomIds, h \in Handlers : PsUnsubscribe(roomId, h)
  \/ \E roomId \in RoomIds, message \in PubSubMessages : PsBroadcast(roomId, message)
  \/ PsDeliver

PubSubSpec == PubSubInit /\ [][PubSubNext]_vars

\* The same calls when one of the callbacks given to subscribe throws.
ThrowNext ==
  \/ \E roomId \in RoomIds, h \in Handlers \cup Throwing : PsSubscribe(roomId, h)
  \/ \E roomId \in RoomIds, h \in Handlers \cup Throwing : PsUnsubscribe(roomId, h)
  \/ \E roomId \in RoomIds, message \in PubSubMessages : PsBroadcast(roomId, message)
  \/ PsDeliver

ThrowSpec == PubSubInit /\ [][ThrowNext]_vars

\* ----------------------------------------------------------- client session
ClientFrame ==
  /\ UNCHANGED <<config, limits>>
  /\ UNCHANGED <<serverVars, rooms, storeVars, pubsubVars>>

\* The join message of ws.onopen (lines 310-321).
JoinPayload ==
  IF config.token # NoToken
    THEN [token |-> config.token, roomId |-> currentRoomId, metadata |-> config.metadata]
    ELSE [roomId |-> currentRoomId, metadata |-> config.metadata]

\* connect()
Connect ==
  IF clientWs # NoSocket /\ sockets[clientWs] \in {"OPEN", "CONNECTING"}
    THEN /\ emitted' = <<>>
         /\ UNCHANGED <<sockets, clientWs, connectionState>>
    ELSE /\ Len(sockets) < MaxSockets
         /\ sockets' = Append(sockets, "CONNECTING")
         /\ clientWs' = Len(sockets) + 1
         /\ connectionState' = IF reconnectAttempts > 0 THEN "reconnecting" ELSE "connecting"
         /\ emitted' = SetState(connectionState, connectionState')

\* The reconnect timeout h fires (lines 341-343).
ReconnectFire(h) ==
  /\ h \in DOMAIN reconnectTimeouts
  /\ reconnectTimeouts' = Remove(reconnectTimeouts, h)
  /\ Connect
  /\ wire' = <<>>
  /\ cev' = ClientEvent("reconnect", clientWs', "")
  /\ UNCHANGED <<currentRoomId, reconnectAttempts, reconnectTimer, heartbeatTimer,
                 lastCursorUpdate, cursorThrottleTimer, pendingCursorPosition,
                 shouldReconnect, now, failedAttempts, maxRetryErrors, callLog,
                 cursorLog>>
  /\ ClientFrame

\* ws.onopen of transport s
SockOpen(s) ==
  /\ s \in DOMAIN sockets
  /\ sockets[s] = "CONNECTING"
  /\ sockets' = [sockets EXCEPT ![s] = "OPEN"]
  /\ reconnectAttempts' = 0
  /\ connectionState' = "connected"
  /\ emitted' = SetState(connectionState, "connected")
  /\ wire' = SendMessage(sockets', clientWs, "join", JoinPayload)
  /\ heartbeatTimer' = IF config.heartbeatInterval > 0 THEN TRUE ELSE heartbeatTimer
  /\ failedAttempts' = 0
  /\ cev' = ClientEvent("open", s, "")
  /\ UNCHANGED <<clientWs, currentRoomId, reconnectTimer, reconnectTimeouts,
                 lastCursorUpdate, cursorThrottleTimer, pendingCursorPosition,
                 shouldReconnect, now, maxRetryErrors, callLog, cursorLog>>
  /\ ClientFrame

\* ws.onclose of transport s: the server or the network closed it, the
\* connection attempt failed, or the close the client asked for completed.
SockClose(s) ==
  /\ s \in DOMAIN sockets
  /\ sockets[s] \in {"CONNECTING", "OPEN", "CLOSING"}
  /\ sockets' = [sockets EXCEPT ![s] = "CLOSED"]
  /\ connectionState' = "disconnected"
  /\ heartbeatTimer' = FALSE
  /\ failedAttempts' = failedAttempts + 1
  /\ wire' = <<>>
  /\ IF /\ shouldReconnect
        /\ config.reconnect.enabled
        /\ reconnectAttempts < config.reconnect.maxRetries
       THEN LET delay == ReconnectDelay(config.reconnect, reconnectAttempts)
            IN /\ reconnectAttempts' = reconnectAttempts + 1
               /\ reconnectTimer' = s
               /\ reconnectTimeouts' = reconnectTimeouts @@ (s :> delay)
               /\ emitted' = SetState(connectionState, "disconnected")
               /\ cev' = [ClientEvent("close", s, "") EXCEPT
                            !.k = failedAttempts, !.delay = delay]
               /\ UNCHANGED maxRetryErrors
       ELSE /\ IF Exhausted(config.reconnect, reconnectAttempts)
                 THEN /\ emitted' = SetState(connectionState, "disconnected") \o <<"error">>
                      /\ maxRetryErrors' = maxRetryErrors + 1
                 ELSE /\ emitted' = SetState(connectionState, "disconnected")
                      /\ UNCHANGED maxRetryErrors
            /\ cev' = [ClientEvent("close", s, "") EXCEPT !.k = failedAttempts]
            /\ UNCHANGED <<reconnectAttempts, reconnectTimer, reconnectTimeouts>>
  /\ UNCHANGED <<clientWs, currentRoomId, lastCursorUpdate, cursorThrottleTimer,
                 pendingCursorPosition, shouldReconnect, now, callLog, cursorLog>>
  /\ ClientFrame

\* The steps that change nothing but what they send or emit.
SendOnly ==
  /\ UNCHANGED <<sockets, clientWs, connectionState, reconnectAttempts,
                 reconnectTimer, reconnectTimeouts, heartbeatTimer,
                 lastCursorUpdate, cursorThrottleTimer, pendingCursorPosition,
                 shouldReconnect, now, failedAttempts, maxRetryErrors, callLog,
                 cursorLog>>
  /\ ClientFrame

\* The heartbeat interval fires (lines 358-362).
HeartbeatFire ==
  /\ heartbeatTimer
  /\ wire' = SendMessage(sockets, clientWs, "ping", EmptyMap)
  /\ emitted' = <<>>
  /\ cev' = ClientEvent("heartbeat", clientWs, "")
  /\ UNCHANGED currentRoomId
  /\ SendOnly

\* ws.onmessage of transport s with a message of the given type.
ServerMessage(s, type) ==
  /\ s \in DOMAIN sockets
  /\ sockets[s] \in {"OPEN", "CLOSING"}
  /\ wire' = IF type = "ping"
               THEN SendMessage(sockets, clientWs, "pong", EmptyMap)
               ELSE <<>>
  /\ emitted' = IF type \in {"ping", "pong"} THEN <<>> ELSE <<type>>
  /\ cev' = ClientEvent("message", s, type)
  /\ UNCHANGED currentRoomId
  /\ SendOnly

\* cursor(position)
ClientCursor(position) ==
  /\ Len(callLog) < limits.cursorCalls
  /\ callLog' = Append(callLog, [at |-> now, position |-> position])
  /\ IF now - lastCursorUpdate >= config.throttleCursor
       THEN /\ wire' = FlushCursorUpdate(sockets, clientWs, position, currentRoomId)
            /\ pendingCursorPosition' = NullCursor
            /\ lastCursorUpdate' = now
            /\ UNCHANGED cursorThrottleTimer
       ELSE /\ wire' = <<>>
            /\ pendingCursorPosition' = position
            /\ cursorThrottleTimer' =
                 now + (config.throttleCursor - (now - lastCursorUpdate))
            /\ UNCHANGED lastCursorUpdate
  /\ cursorLog' = cursorLog \o CursorsAt(wire', now)
  /\ emitted' = <<>>
  /\ cev' = ClientEvent("cursor", clientWs, position)
  /\ UNCHANGED <<sockets, clientWs, currentRoomId, connectionState,
                 reconnectAttempts, reconnectTimer, reconnectTimeouts,
                 heartbeatTimer, shouldReconnect, now, failedAttempts,
                 maxRetryErrors>>
  /\ ClientFrame

\* The flush timeout set by cursor() fires: flushCursorUpdate().
CursorTimerFire ==
  /\ cursorThrottleTimer # NoTimer
  /\ now >= cursorThrottleTimer
  /\ wire' = FlushCursorUpdate(sockets, clientWs, pendingCursorPosition, currentRoomId)
  /\ pendingCursorPosition' = NullCursor
  /\ cursorThrottleTimer' = NoTimer
  /\ cursorLog' = cursorLog \o CursorsAt(wire', now)
  /\ emitted' = <<>>
  /\ cev' = ClientEvent("cursorTimer", clientWs, "")
  /\ UNCHANGED <<sockets, clientWs, currentRoomId, connectionState,
                 reconnectAttempts, reconnectTimer, reconnectTimeouts,
                 heartbeatTimer, lastCursorUpdate, shouldReconnect, now,
                 failedAttempts, maxRetryErrors, callLog>>
  /\ ClientFrame

\* Time passes; a flush timeout fires when it is due.
Tick ==
  /\ now < limits.horizon
  /\ ~(cursorThrottleTimer # NoTimer /\ cursorThrottleTimer <= now)
  /\ now' = now + TickMs
  /\ wire' = <<>>
  /\ emitted' = <<>>
  /\ cev' = ClientEvent("tick", NoSocket, "")
  /\ UNCHANGED <<sockets, clientWs, currentRoomId, connectionState,
                 reconnectAttempts, reconnectTimer, reconnectTimeouts,
                 heartbeatTimer, lastCursorUpdate, cursorThrottleTimer,
                 pendingCursorPosition, shouldReconnect, failedAttempts,
                 maxRetryErrors, callLog, cursorLog>>
  /\ ClientFrame

\* typing(isTyping)
ClientTyping(isTyping) ==
  /\ wire' = SendMessage(sockets, clientWs, "typing",
                         [isTyping |-> isTyping, roomId |-> currentRoomId])
  /\ emitted' = <<>>
  /\ cev' = ClientEvent("typing", clientWs, "")
  /\ UNCHANGED currentRoomId
  /\ SendOnly

\* send(event)
ClientSend(event) ==
  /\ wire' = SendMessage(sockets, clientWs, "custom",
                         [event |-> event, roomId |-> currentRoomId])
  /\ emitted' = <<>>
  /\ cev' = ClientEvent("send", clientWs, event)
  /\ UNCHANGED currentRoomId
  /\ SendOnly

\* joinRoom(newRoomId)
ClientJoinRoom(newRoomId) ==
  /\ currentRoomId' = newRoomId
  /\ wire' = SendMessage(sockets, clientWs, "join", [roomId |-> newRoomId])
  /\ emitted' = <<>>
  /\ cev' = ClientEvent("joinRoom", clientWs, newRoomId)
  /\ SendOnly

\* leaveRoom()
ClientLeaveRoom ==
  /\ wire' = SendMessage(sockets, clientWs, "leave", [roomId |-> currentRoomId])
  /\ emitted' = <<>>
  /\ cev' = ClientEvent("leaveRoom", clientWs, "")
  /\ UNCHANGED currentRoomId
  /\ SendOnly

\* disconnect()
ClientDisconnect ==
  /\ shouldReconnect' = FALSE
  /\ heartbeatTimer' = FALSE
  /\ reconnectTimeouts' = IF reconnectTimer # NoTimer
                            THEN ClearTimeout(reconnectTimeouts, reconnectTimer)
                            ELSE reconnectTimeouts
  /\ reconnectTimer' = NoTimer
  /\ cursorThrottleTimer' = NoTimer
  /\ sockets' = IF clientWs # NoSocket /\ sockets[clientWs] \in {"CONNECTING", "OPEN"}
                  THEN [sockets EXCEPT ![clientWs] = "CLOSING"]
                  ELSE sockets
  /\ clientWs' = NoSocket
  /\ connectionState' = "disconnected"
  /\ emitted' = SetState(connectionState, "disconnected")
  /\ wire' = <<>>
  /\ cev' = ClientEvent("disconnect", clientWs, "")
  /\ UNCHANGED <<currentRoomId, reconnectAttempts, lastCursorUpdate,
                 pendingCursorPosition, now, failedAttempts, maxRetryErrors,
                 callLog, cursorLog>>
  /\ ClientFrame

ClientInit ==
  /\ ServerCreated
  /\ auth = FALSE
  /\ \E cfg \in ClientConfigs : ClientCreated(cfg, ClientLimits)

ClientNext ==
  \/ \E s \in 1..MaxSockets : SockOpen(s)
  \/ \E s \in 1..MaxSockets : SockClose(s)
  \/ \E h \in 1..MaxSockets : ReconnectFire(h)
  \/ HeartbeatFire
  \/ \E s \in 1..MaxSockets, type \in {"ping", "presence"} : ServerMessage(s, type)
  \/ \E position \in ClientPositions : ClientCursor(position)
  \/ CursorTimerFire
  \/ Tick
  \/ \E isTyping \in BOOLEAN : ClientTyping(isTyping)
  \/ \E event \in Events : ClientSend(event)
  \/ \E newRoomId \in RoomIds : ClientJoinRoom(newRoomId)
  \/ ClientLeaveRoom
  \/ ClientDisconnect

ClientSpec == ClientInit /\ [][ClientNext]_vars

\* A connected session: the first transport has opened (ws.onopen ran).
ClientConnected(cfg, lim) ==
  /\ config = cfg
  /\ limits = lim
  /\ sockets = <<"OPEN">>
  /\ clientWs = 1
  /\ currentRoomId = cfg.roomId
  /\ connectionState = "connected"
  /\ reconnectAttempts = 0
  /\ reconnectTimer = NoTimer
  /\ reconnectTimeouts = EmptyMap
  /\ heartbeatTimer = TRUE
  /\ lastCursorUpdate = 0
  /\ cursorThrottleTimer = NoTimer
  /\ pendingCursorPosition = NullCursor
  /\ shouldReconnect = TRUE
  /\ now = Epoch
  /\ cev = ClientEvent("open", 1, "")
  /\ wire = <<[type |-> "join", roomId |-> cfg.roomId, metadata |-> cfg.metadata]>>
  /\ emitted = <<"connected">>
  /\ failedAttempts = 0
  /\ maxRetryErrors = 0
  /\ callLog = <<>>
  /\ cursorLog = <<>>

ThrottleInit ==
  /\ ServerCreated
  /\ auth = FALSE
  /\ ClientConnected(ThrottleConfig, ThrottleLimits)

ThrottleNext ==
  \/ \E position \in ClientPositions : ClientCursor(position)
  \/ CursorTimerFire
  \/ Tick

ThrottleSpec == ThrottleInit /\ [][ThrottleNext]_vars

\* ------------------------------------------------- failing adapter calls
\* Every Adapter method and auth.verifyToken returns a Promise that may
\* reject.  A rejected await inside ws.on('message') throws at that line:
\* the statements before it have run, the rest of the handler is skipped and
\* the catch block replies with the error's message.
StoreFailure == ErrorMsg("store failure")

\* The awaited calls of a handler, in the order the handlers make them.
FaultOrder ==
  <<"leaveRoom", "unsubscribe", "joinRoom", "subscribe", "getUsers", "broadcast">>

StageOf(op) == CHOOSE k \in 1..Len(FaultOrder) : FaultOrder[k] = op

FailedEvent(type, ws, op, roomId, token) ==
  [Event(type, ws, "failed") EXCEPT !.roomId = roomId, !.token = token]
    @@ ("op" :> op)

\* The one handler step of a behaviour that meets a rejecting call; it is
\* one of the last FaultSteps steps.
Fails ==
  /\ ev.path # "failed"
  /\ handled <= MaxEvents - FaultSteps
  /\ Handle

\* Lines 148-153: the catch block.
CatchSends(ws) == sent' = WsSend(readyState, ws, StoreFailure)

\* Lines 53-62 and 80-89 when the call op rejects.  subscribeToRoom awaits
\* adapter.subscribe only for a room that has no callback yet, after it has
\* stored the callback in roomSubscriptions.
BindFault(ws, userId, roomId, metadata, op) ==
  LET rooms1 == MemJoinRoom(rooms, roomId, userId, metadata)
      s1 == SubscribeToRoom(roomSubscriptions, subscribers, roomId)
      k == StageOf(op)
  IN /\ op \in {"joinRoom", "subscribe", "getUsers", "broadcast"}
     /\ op = "subscribe" => roomId \notin roomSubscriptions
     /\ connection' = [connection EXCEPT ![ws] = ClientConnection(userId, roomId, metadata)]
     /\ connections' = connections \cup {ws}
     /\ rooms' = IF k <= 3 THEN rooms ELSE rooms1
     /\ roomSubscriptions' = IF k <= 3 THEN roomSubscriptions ELSE s1.rsubs
     /\ subscribers' = IF k <= 4 THEN subscribers ELSE s1.subs
     /\ CatchSends(ws)

\* Lines 37-46 when the call op rejects.  unsubscribeFromRoom awaits
\* adapter.unsubscribe only when the room has a callback, and deletes it from
\* roomSubscriptions after the await.
SwitchFault(ws, roomId, op) ==
  LET conn == connection[ws]
      rooms1 == MemLeaveRoom(rooms, conn.roomId, conn.userId)
      s1 == UnsubscribeFromRoom(roomSubscriptions, subscribers, conn.roomId)
      rooms2 == MemJoinRoom(rooms1, roomId, conn.userId, conn.metadata)
      s2 == SubscribeToRoom(s1.rsubs, s1.subs, roomId)
      k == StageOf(op)
  IN /\ op = "unsubscribe" => conn.roomId \in roomSubscriptions
     /\ op = "subscribe" => roomId \notin s1.rsubs
     /\ connection' = IF k <= 2 THEN connection
                                ELSE [connection EXCEPT ![ws].roomId = roomId]
     /\ rooms' = IF k = 1 THEN rooms ELSE IF k <= 3 THEN rooms1 ELSE rooms2
     /\ roomSubscriptions' = IF k <= 2 THEN roomSubscriptions
                             ELSE IF k = 3 THEN s1.rsubs ELSE s2.rsubs
     /\ subscribers' = IF k <= 2 THEN subscribers
                       ELSE IF k <= 4 THEN s1.subs ELSE s2.subs
     /\ CatchSends(ws)
     /\ UNCHANGED connections

\* A join message whose handler throws at the adapter call op (no auth, or
\* the room switch of a bound connection).
JoinFault(ws, roomId, token, metadata, op) ==
  /\ readyState[ws] = "OPEN"
  /\ LET conn == connection[ws] IN
     IF conn.bound /\ roomId # NoRoom /\ roomId # conn.roomId
       THEN /\ SwitchFault(ws, roomId, op)
            /\ UNCHANGED nextId
       ELSE /\ ~auth
            /\ nextId < MaxIds
            /\ nextId' = nextId + 1
            /\ BindFault(ws, nextId + 1, RoomOrDefault(roomId), metadata, op)
  /\ ev' = FailedEvent("join", ws, op, roomId, token)
  /\ UNCHANGED <<auth, readyState, pending>>
  /\ Fails
  /\ UNCHANGED <<storeVars, pubsubVars, clientVars>>

\* Lines 72-90: verifyToken rejects, or it accepts the token and the adapter
\* call op of the join rejects.
AuthFault(ws, op) ==
  /\ pending[ws].waiting
  /\ pending' = [pending EXCEPT ![ws] = NoPending]
  /\ LET data == pending[ws]
         authResult == VerifyToken(data.token)
     IN /\ IF op = "verifyToken"
             THEN /\ CatchSends(ws)
                  /\ UNCHANGED <<connection, connections, rooms, subscribers,
                                 roomSubscriptions>>
             ELSE /\ ~AuthRejected(authResult)
                  /\ BindFault(ws, authResult.userId, RoomOrDefault(data.roomId),
                               OrElse(authResult.metadata, data.metadata), op)
        /\ ev' = FailedEvent("authReturn", ws, op, data.roomId, data.token)
  /\ UNCHANGED <<auth, readyState, nextId>>
  /\ Fails
  /\ UNCHANGED <<storeVars, pubsubVars, clientVars>>

\* Lines 98-103 when the call op rejects.
LeaveFault(ws, op) ==
  /\ readyState[ws] = "OPEN"
  /\ connection[ws].bound
  /\ op \in {"leaveRoom", "unsubscribe", "getUsers", "broadcast"}
  /\ LET conn == connection[ws]
         rooms1 == MemLeaveRoom(rooms, conn.roomId, conn.userId)
         s1 == UnsubscribeFromRoom(roomSubscriptions, subscribers, conn.roomId)
         k == StageOf(op)
     IN /\ op = "unsubscribe" => conn.roomId \in roomSubscriptions
        /\ rooms' = IF k = 1 THEN rooms ELSE rooms1
        /\ roomSubscriptions' = IF k <= 2 THEN roomSubscriptions ELSE s1.rsubs
        /\ subscribers' = IF k <= 2 THEN subscribers ELSE s1.subs
  /\ CatchSends(ws)
  /\ ev' = FailedEvent("leave", ws, op, NoRoom, NoToken)
  /\ UNCHANGED <<auth, readyState, connection, connections, pending, nextId>>
  /\ Fails
  /\ UNCHANGED <<storeVars, pubsubVars, clientVars>>

\* Lines 106-125 when updateUser, getUsers or broadcast rejects.
UpdateFault(ws, updates, op) ==
  /\ readyState[ws] = "OPEN"
  /\ connection[ws].bound
  /\ op \in {"updateUser", "getUsers", "broadcast"}
  /\ LET conn == connection[ws]
         rooms1 == MemUpdateUser(rooms, conn.roomId, conn.userId, updates)
     IN /\ op = "broadcast" => FindUser(rooms1, conn.roomId, conn.userId) # {}
        /\ rooms' = IF op = "updateUser" THEN rooms ELSE rooms1
  /\ CatchSends(ws)
  /\ ev' = FailedEvent(IF "cursor" \in DOMAIN updates THEN "cursor" ELSE "typing",
                       ws, op, NoRoom, NoToken)
  /\ UNCHANGED <<auth, readyState, connection, connections, subscribers,
                 roomSubscriptions, pending, nextId>>
  /\ Fails
  /\ UNCHANGED <<storeVars, pubsubVars, clientVars>>

\* Lines 137-147 when getUsers or broadcast rejects.
CustomFault(ws, event, op) ==
  /\ readyState[ws] = "OPEN"
  /\ connection[ws].bound
  /\ op \in {"getUsers", "broadcast"}
  /\ CatchSends(ws)
  /\ ev' = FailedEvent("custom", ws, op, NoRoom, NoToken)
  /\ UNCHANGED <<auth, readyState, connection, connections, rooms, subscribers,
                 roomSubscriptions, pending, nextId>>
  /\ Fails
  /\ UNCHANGED <<storeVars, pubsubVars, clientVars>>

FaultUpdates ==
  {[cursor |-> position] : position \in Positions}
    \cup {[typing |-> isTyping] : isTyping \in BOOLEAN}

\* The server's handlers; the behaviour is followed up to the first handler
\* that meets a rejecting call.
FaultNext ==
  \/ /\ ev.path # "failed"
     /\ handled < MaxEvents - FaultSteps
     /\ Next
  \/ \E ws \in Conns, roomId \in RoomIds \cup {NoRoom}, token \in TokenInputs,
        metadata \in ClientMetas, op \in Range(FaultOrder) :
       JoinFault(ws, roomId, token, metadata, op)
  \/ \E ws \in Conns, op \in Range(FaultOrder) \cup {"verifyToken"} : AuthFault(ws, op)
  \/ \E ws \in Conns, op \in Range(FaultOrder) : LeaveFault(ws, op)
  \/ \E ws \in Conns, updates \in FaultUpdates,
        op \in Range(FaultOrder) \cup {"updateUser"} :
       UpdateFault(ws, updates, op)
  \/ \E ws \in Conns, event \in Events, op \in Range(FaultOrder) :
       CustomFault(ws, event, op)

FaultSpec == Init /\ [][FaultNext]_vars

\* ------------------------------------------------------------------ claims

\* C1: in both Backend Store variants, after any sequence of joinRoom and
\* leaveRoom calls (overlapping calls being for distinct users) has
\* completed, getUsers(roomId) lists exactly the users that were joined and
\* not subsequently left.
C1_GetUsersIsJoinedNotLeft ==
  \A roomId \in RoomIds :
    /\ UserIdsOf(MemGetUsers(rooms, roomId)) = joined[roomId]
    /\ DOMAIN task = {} =>
         UserIdsOf(RedisGetUsers(redisUsers, redisMembers, roomId)) = joined[roomId]

\* Both stores list user 2 alone in r1 after at least three completed calls.
C1_Witness ==
  /\ DOMAIN task = {}
  /\ calls >= 3
  /\ joined["r1"] = {2}
  /\ UserIdsOf(MemGetUsers(rooms, "r1")) = {2}
  /\ UserIdsOf(RedisGetUsers(redisUsers, redisMembers, "r1")) = {2}
  /\ joined["default"] = {}


\* The user of connection c is listed in the membership rs of the room the
\* connection is bound to.
IsMember(c, conn, rs) ==
  /\ conn[c].bound
  /\ conn[c].roomId \in DOMAIN rs
  /\ conn[c].userId \in DOMAIN rs[conn[c].roomId]

\* Connection c is open, in the connection table and bound to roomId as a
\* listed member.
BoundTo(c, roomId, conn, table, rs, rstate) ==
  /\ c \in table
  /\ rstate[c] = "OPEN"
  /\ IsMember(c, conn, rs)
  /\ conn[c].roomId = roomId

Only(ws, msg) == [c \in Conns |-> IF c = ws THEN <<msg>> ELSE <<>>]

Received(c, msg) == \E i \in 1..Len(sent[c]) : sent[c][i] = msg

\* No message put on the wire by the last step carries the internal marker.
MarkerNeverOnWire ==
  \A c \in Conns : \A i \in 1..Len(sent[c]) :
    "_excludeUserId" \notin DOMAIN sent[c][i]

\* C2: when a bound connection A sends cursor or typing, the stored User
\* takes the new value, every other connection bound to the same room (and
\* of another identity) receives exactly one update carrying that User, and
\* A receives nothing.
C2_UpdateReachesEveryPeer ==
  (ev.type \in {"cursor", "typing"} /\ ev.path = "bound"
     /\ IsMember(ev.ws, connection, rooms)) =>
    LET a == ev.ws
        roomId == connection[a].roomId
        user == rooms[roomId][connection[a].userId]
    IN /\ ev.type = "cursor" => user.cursor = ev.position
       /\ ev.type = "typing" => user.typing = ev.isTyping
       /\ sent[a] = <<>>
       /\ \A b \in Conns \ {a} :
            (BoundTo(b, roomId, connection, connections, rooms, readyState)
               /\ connection[b].userId # connection[a].userId)
              => sent[b] = <<UpdateMsg(user)>>

\* C3: a broadcast made with an excluded identity (cursor, typing, custom)
\* is sent to every open same-room connection of another identity, to none of
\* the excluded identity, and nothing on the wire carries _excludeUserId.
C3_ExclusionSemantics ==
  (ev.type \in {"cursor", "typing", "custom"} /\ ev.path = "bound"
     /\ IsMember(ev.ws, connection, rooms)) =>
    LET a == ev.ws
        roomId == connection[a].roomId
        excluded == connection[a].userId
    IN /\ \A c \in Conns :
            BoundTo(c, roomId, connection, connections, rooms, readyState) =>
              IF connection[c].userId = excluded
                THEN sent[c] = <<>>
                ELSE Len(sent[c]) = 1
       /\ MarkerNeverOnWire

\* C4: when a bound connection sends leave or closes, every other connection
\* still bound to that room is sent a presence message listing the remaining
\* membership.
C4_DepartureBroadcastsPresence ==
  (ev.type \in {"leave", "close"} /\ ev.path = "bound") =>
    LET roomId == connection[ev.ws].roomId
    IN \A b \in Conns \ {ev.ws} :
         BoundTo(b, roomId, connection, connections, rooms, readyState) =>
           Received(b, PresenceMsg(MemGetUsers(rooms, roomId)))

\* C5: when a connection bound to room r1 sends join for another room r2,
\* r1's remaining members are sent a presence message with r1's remaining
\* membership, r2's members one with r2's membership including the switching
\* identity, and the connection ends bound to r2 only.
C5_SwitchBroadcastsBothRooms ==
  [][\A ws \in Conns :
       (ev'.type = "join" /\ ev'.ws = ws /\ IsMember(ws, connection, rooms)
          /\ ev'.roomId # NoRoom /\ ev'.roomId # connection[ws].roomId) =>
         LET r1 == connection[ws].roomId
             r2 == ev'.roomId
             userId == connection[ws].userId
         IN /\ connection'[ws].roomId = r2
            /\ userId \in UserIdsOf(MemGetUsers(rooms', r2))
            /\ userId \notin UserIdsOf(MemGetUsers(rooms', r1))
            /\ \A b \in Conns :
                 BoundTo(b, r2, connection', connections', rooms', readyState') =>
                   \E i \in 1..Len(sent'[b]) :
                     sent'[b][i] = PresenceMsg(MemGetUsers(rooms', r2))
            /\ \A b \in Conns \ {ws} :
                 BoundTo(b, r1, connection', connections', rooms', readyState') =>
                   \E i \in 1..Len(sent'[b]) :
                     sent'[b][i] = PresenceMsg(MemGetUsers(rooms', r1))
    ]_vars

\* C6: once a bound connection's leave has been processed, its next cursor,
\* typing, custom or leave message is answered with the 'not authenticated'
\* error and broadcasts nothing, and a message of another connection sends
\* nothing to it.
C6_LeaveUnbinds ==
  [][(ev.type = "leave" /\ ev.path = "bound" /\ ev'.type # "close") =>
       IF ev'.ws = ev.ws
         THEN ev'.type \in {"cursor", "typing", "custom", "leave"} =>
                sent' = Only(ev.ws, NotAuthenticated)
         ELSE sent'[ev.ws] = <<>>
    ]_vars

\* C7: a ping from a connection in any state is answered with exactly one
\* pong to the sender only, and changes no binding, membership or
\* subscription.
C7_PingAnswersPong ==
  [][ev'.type = "ping" =>
       /\ sent' = Only(ev'.ws, PongMsg)
       /\ UNCHANGED <<connection, connections, rooms, subscribers, roomSubscriptions>>
    ]_vars

Unbound(ws) ==
  \/ ~connection[ws].bound
  \/ ev.type = "leave" /\ ev.path = "bound" /\ ev.ws = ws

\* C9: with auth configured, a join of an Unbound connection without a token
\* is answered with an error to that connection only and verifyToken is not
\* called; a join with a token that verifyToken rejects changes nothing while
\* the callback runs and is answered, when it returns, with its error to that
\* connection only.  In every case the connection stays as open as it was
\* and no binding, membership or subscription changes.
C9_AuthFailureOnlyReplies ==
  [][\A ws \in Conns :
       (auth /\ ev'.ws = ws /\ Unbound(ws)) =>
         /\ (ev'.type = "join" /\ ev'.token = NoToken) =>
              /\ sent' = Only(ws, TokenMissing)
              /\ pending' = pending
              /\ UNCHANGED <<connection, connections, rooms, subscribers,
                             roomSubscriptions, readyState>>
         /\ (ev'.type = "join" /\ ev'.token = "bad") =>
              /\ sent' = NoneSent
              /\ UNCHANGED <<connection, connections, rooms, subscribers,
                             roomSubscriptions, readyState>>
         /\ (ev'.type = "authReturn" /\ ev'.token = "bad") =>
              /\ sent' = IF readyState[ws] = "OPEN"
                           THEN Only(ws, ErrorMsg("Invalid token"))
                           ELSE NoneSent
              /\ UNCHANGED <<connection, connections, rooms, subscribers,
                             roomSubscriptions, readyState>>
    ]_vars

\* C10: with no auth configured, a join of an Unbound connection (or a join
\* that names no other room than the connection's) binds the connection
\* under an identity that no connection and no room membership held before,
\* and the joiner is sent one presence message listing the full membership of
\* the room, itself included (exactly one user when the room had no member).
C10_AnonymousJoin ==
  [][\A ws \in Conns :
       (~auth /\ ev'.type = "join" /\ ev'.ws = ws
          /\ (\/ Unbound(ws)
              \/ ev'.roomId = NoRoom
              \/ ev'.roomId = connection[ws].roomId)) =>
         LET roomId == RoomOrDefault(ev'.roomId)
             me == connection'[ws]
             users == MemGetUsers(rooms', roomId)
         IN /\ me.bound
            /\ me.roomId = roomId
            /\ ws \in connections'
            /\ \A c \in Conns : connection[c].bound => connection[c].userId # me.userId
            /\ \A r \in RoomIds : me.userId \notin UserIdsOf(MemGetUsers(rooms, r))
            /\ sent'[ws] = <<PresenceMsg(users)>>
            /\ me.userId \in UserIdsOf(users)
            /\ UserIdsOf(users) = UserIdsOf(MemGetUsers(rooms, roomId)) \cup {me.userId}
            /\ MemGetUsers(rooms, roomId) = {} => Cardinality(users) = 1
    ]_vars

\* C11: every presence, update or custom message a step sends goes only to
\* connections that are Bound, after that step, to the room the step
\* broadcast to; a connection that is Unbound or bound to another room is
\* sent none.
C11_RoomIsolation ==
  [][LET room == IF ev'.type \in {"join", "authReturn"}
                   THEN RoomOrDefault(ev'.roomId)
                   ELSE connection[ev'.ws].roomId
     IN \A c \in Conns : \A i \in 1..Len(sent'[c]) :
          sent'[c][i].type \in {"presence", "update", "custom"} =>
            /\ connection'[c].bound
            /\ connection'[c].roomId = room
            /\ Unbound(c) => (ev'.ws = c /\ ev'.type \in {"join", "authReturn"})
    ]_vars

\* C12: joinRoom(roomId, userId, metadata) is an idempotent upsert in both
\* stores: when it returns, the room lists exactly one User for userId, with
\* cursor null, typing false and the given metadata, whether or not userId
\* was a member before, and a second identical call changes nothing.
C12_JoinRoomIsUpsert ==
  [][/\ \A roomId \in RoomIds, userId \in StoreUsers, metadata \in StoreMetas :
          StoreJoinRoom(roomId, userId, metadata) =>
            /\ {u \in MemGetUsers(rooms', roomId) : u.id = userId}
                 = {User(userId, roomId, metadata)}
            /\ MemJoinRoom(rooms', roomId, userId, metadata) = rooms'
     /\ \A id \in DOMAIN task :
          (RedisStep(id) /\ task[id].op = "joinRoom" /\ task[id].pc = 2) =>
            LET t == task[id]
                us == {u \in RedisGetUsers(redisUsers', redisMembers', t.roomId) :
                         u.id = t.userId}
            IN /\ Cardinality(us) = 1
               /\ \A u \in us : /\ u.cursor = NullCursor
                                /\ u.typing = FALSE
                                /\ MetadataOf(u) = t.metadata
               /\ RedisJoinHset(redisUsers', t.roomId, t.userId, t.metadata) = redisUsers'
               /\ RedisJoinSadd(redisMembers', t.roomId, t.userId) = redisMembers'
    ]_vars

\* C13: updateUser(R, u, partial) for a user u that is not a member of R
\* changes the membership of no room in either store, creates no entry for
\* u, and invokes no subscriber callback.
C13_UpdateAbsentUserIsNoOp ==
  [][/\ \A roomId \in RoomIds, userId \in StoreUsers, updates \in StoreUpdates :
          (StoreUpdateUser(roomId, userId, updates)
             /\ userId \notin UserIdsOf(MemGetUsers(rooms, roomId))) =>
            /\ rooms' = rooms
            /\ UNCHANGED <<subscribers, sent>>
     /\ \A id \in DOMAIN task :
          (RedisStep(id) /\ task[id].op = "updateUser"
             /\ task[id].userId \notin
                  UserIdsOf(RedisGetUsers(redisUsers, redisMembers, task[id].roomId))) =>
            /\ UNCHANGED <<redisUsers, redisMembers>>
            /\ id \notin DOMAIN task'
            /\ UNCHANGED <<subscribers, sent>>
    ]_vars

\* updateUser for user 2, who is not joined to r1, has returned in both
\* stores, and both still list user 1 alone in r1.
C13_Witness ==
  /\ storeEv = StoreEvent("updateUser", "return", "r1", 2, FALSE)
  /\ DOMAIN task = {}
  /\ UserIdsOf(MemGetUsers(rooms, "r1")) = {1}
  /\ UserIdsOf(RedisGetUsers(redisUsers, redisMembers, "r1")) = {1}

\* Number of invocations of handler h by store among the last step's.
TimesInvoked(store, h) ==
  Cardinality({i \in 1..Len(invoked) :
                 invoked[i].store = store /\ invoked[i].handler = h})

\* C14: in both stores, a broadcast to R invokes every handler subscribed to
\* R exactly once with the message and no handler that is unsubscribed (for
\* the RedisAdapter: the broadcast is published while a handler is
\* subscribed, and its delivery invokes the handlers subscribed then);
\* subscribing again after the last unsubscribe restores this; and a store
\* holds a subscriber set for R only while some handler is subscribed to R.
C14_SubscribeRoundTrip ==
  /\ psEv.op = "broadcast" =>
       /\ \A h \in Handlers :
            TimesInvoked("memory", h)
              = IF <<psEv.roomId, h>> \in subscribed THEN 1 ELSE 0
       /\ \A i \in 1..Len(invoked) : invoked[i].message = psEv.message
       /\ (\E h \in Handlers : <<psEv.roomId, h>> \in subscribed) =>
            /\ published # <<>>
            /\ published[Len(published)] =
                 [roomId |-> psEv.roomId, text |-> MessageJSON(psEv.message)]
  /\ psEv.op = "deliver" =>
       /\ \A h \in Handlers :
            TimesInvoked("redis", h)
              = IF <<psEv.roomId, h>> \in subscribed THEN 1 ELSE 0
       /\ \A i \in 1..Len(invoked) : invoked[i].message = psEv.message
  /\ \A roomId \in RoomIds :
       LET live == \E h \in Handlers : <<roomId, h>> \in subscribed
       IN /\ roomId \in DOMAIN subscribers <=> live
          /\ roomId \in DOMAIN redisSubscribers <=> live
          /\ roomId \in redisChannels <=> live

\* After at least four calls (subscribe, unsubscribe, subscribe, broadcast
\* being the shortest), a delivery invoked h1, the only subscribed handler,
\* once.
C14_Witness ==
  /\ psEv.op = "deliver"
  /\ psCalls >= 4
  /\ subscribed = {<<"r1", "h1">>}
  /\ Len(invoked) = 1
  /\ invoked[1] = [store |-> "redis", handler |-> "h1",
                   message |-> JSONParse(MessageJSON(UpdateMsg(User(1, "r1", NoMeta))))]

\* C15: every close that is not caller-initiated, with reconnection enabled
\* and attempts remaining, schedules one reconnect whose delay is
\* min(initialDelay * backoffFactor^k, maxDelay), k being the number of
\* closes since the last successful open; with initialDelay 1000,
\* backoffFactor 2 and maxDelay 30000 the delays of attempts 1..6 are 1000,
\* 2000, 4000, 8000, 16000, 30000.
C15_ReconnectBackoff ==
  [][\A s \in 1..MaxSockets :
       (SockClose(s) /\ shouldReconnect /\ config.reconnect.enabled
          /\ failedAttempts < config.reconnect.maxRetries) =>
         LET r == config.reconnect
             k == failedAttempts
         IN /\ DOMAIN reconnectTimeouts' = DOMAIN reconnectTimeouts \cup {s}
            /\ s \notin DOMAIN reconnectTimeouts
            /\ reconnectTimeouts'[s] = Min(r.initialDelay * Pow(r.backoffFactor, k),
                                           r.maxDelay)
            /\ r = ReconnectDefault =>
                 reconnectTimeouts'[s] =
                   <<1000, 2000, 4000, 8000, 16000, 30000>>[k + 1]
    ]_vars

\* The sixth consecutive failure scheduled the capped delay of 30000 ms.
C15_Witness ==
  /\ cev.op = "close"
  /\ cev.k = 5
  /\ cev.delay = 30000
  /\ reconnectTimeouts = (cev.s :> 30000)

\* C16: once disconnect() has been called the connection state is
\* 'disconnected' in every later state, no transport is created or opened,
\* and no message is sent, whatever timers were pending at the call and
\* whatever events arrive afterwards.
C16_DisconnectIsFinal ==
  [][~shouldReconnect' =>
       /\ connectionState' = "disconnected"
       /\ wire' = <<>>
       /\ Len(sockets') = Len(sockets)
       /\ \A s \in DOMAIN sockets' : sockets'[s] \notin {"CONNECTING", "OPEN"}
       /\ reconnectTimeouts' = EmptyMap
       /\ ~heartbeatTimer'
    ]_vars

\* The close of the transport arrived after disconnect() was called on a
\* session that had a cursor position waiting and had reconnected before.
C16_Witness ==
  /\ ~shouldReconnect
  /\ cev.op = "close"
  /\ Len(sockets) >= 2
  /\ pendingCursorPosition # NullCursor

\* C17: a close with the attempt counter at maxRetries emits the error event
\* once and schedules nothing; afterwards no reconnect is scheduled, no
\* transport is created and the error is not emitted again.
C17_ExhaustionReportedOnce ==
  [][/\ \A s \in 1..MaxSockets :
          (SockClose(s) /\ reconnectAttempts >= config.reconnect.maxRetries) =>
            /\ Cardinality({i \in 1..Len(emitted') : emitted'[i] = "error"}) = 1
            /\ maxRetryErrors' = 1
            /\ reconnectTimeouts' = EmptyMap
     /\ maxRetryErrors >= 1 =>
          /\ Len(sockets') = Len(sockets)
          /\ reconnectTimeouts' = EmptyMap
          /\ maxRetryErrors' = 1
          /\ \A i \in 1..Len(emitted') : emitted'[i] # "error"
    ]_vars

\* The seventh transport of a session with maxRetries 6 has closed and the
\* error was emitted.
C17_Witness ==
  /\ config.reconnect = ReconnectDefault
  /\ cev.op = "close"
  /\ cev.s = 7
  /\ maxRetryErrors = 1
  /\ emitted = <<"error">>

\* C18: on a connected session any two cursor messages put on the wire are
\* at least throttleCursor ms apart, every cursor message sent carries the
\* position of the latest cursor() call, and a position still waiting to be
\* sent has been waiting for at most throttleCursor ms.
C18_CursorThrottle ==
  /\ \A i \in 1..Len(cursorLog) : \A j \in 1..Len(cursorLog) :
       i < j => cursorLog[j].at - cursorLog[i].at >= config.throttleCursor
  /\ (cev.op \in {"cursor", "cursorTimer"} /\ wire # <<>>) =>
       /\ Len(wire) = 1
       /\ wire[1].position = callLog[Len(callLog)].position
  /\ pendingCursorPosition # NullCursor =>
       now <= callLog[Len(callLog)].at + config.throttleCursor

\* C19: with throttleCursor = 50 on a connected session, cursor({x:1,y:1})
\* followed 10 ms later by cursor({x:2,y:2}) produces exactly one cursor
\* message, carrying {x:2,y:2}, sent no earlier than 50 ms after the first
\* call.
C19_TwoCallsOneMessage ==
  (/\ config.throttleCursor = 50
   /\ Len(callLog) = 2
   /\ callLog[1].position = "p1"
   /\ callLog[2] = [at |-> callLog[1].at + 10, position |-> "p2"]) =>
    /\ Len(cursorLog) <= 1
    /\ \A i \in 1..Len(cursorLog) :
         /\ cursorLog[i].position = "p2"
         /\ cursorLog[i].at >= callLog[1].at + 50
    /\ now > callLog[1].at + 50 => Len(cursorLog) = 1

\* Every client variable that could hold a message for later.
NothingQueued ==
  UNCHANGED <<sockets, clientWs, connectionState, reconnectAttempts,
              reconnectTimer, reconnectTimeouts, heartbeatTimer,
              lastCursorUpdate, cursorThrottleTimer, pendingCursorPosition,
              shouldReconnect, cursorLog>>

\* C20: while the transport is not open, typing(), send(), leaveRoom() and
\* joinRoom() send nothing and store nothing for later; joinRoom(r) still
\* sets the tracked room, and the only message an opening transport sends
\* is the join for the tracked room.
C20_DroppedWhileNotOpen ==
  [][~IsOpen(sockets, clientWs) =>
       /\ \A isTyping \in BOOLEAN :
            ClientTyping(isTyping) =>
              wire' = <<>> /\ NothingQueued /\ UNCHANGED currentRoomId
       /\ \A event \in Events :
            ClientSend(event) =>
              wire' = <<>> /\ NothingQueued /\ UNCHANGED currentRoomId
       /\ ClientLeaveRoom =>
            wire' = <<>> /\ NothingQueued /\ UNCHANGED currentRoomId
       /\ \A r \in RoomIds :
            ClientJoinRoom(r) =>
              wire' = <<>> /\ NothingQueued /\ currentRoomId' = r
       /\ \A s \in 1..MaxSockets :
            SockOpen(s) =>
              /\ Len(wire') = 1
              /\ wire'[1].type = "join"
              /\ wire'[1].roomId = currentRoomId
              /\ cev.op = "joinRoom" => wire'[1].roomId = cev.arg
    ]_vars

\* The first transport opened and sent the join for r1, the room a
\* joinRoom('r1') call set while the transport was still connecting.
C20_Witness ==
  /\ cev.op = "open"
  /\ sockets = <<"OPEN">>
  /\ config.roomId = "default"
  /\ Len(wire) = 1
  /\ wire[1].type = "join"
  /\ wire[1].roomId = "r1"

\* No handler is in progress: no join is suspended at verifyToken (every
\* other handler of Spec runs to completion in its step).
Quiescent == \A c \in Conns : ~pending[c].waiting

\* C21: at quiescence the Backend Store holds a subscriber of the relay
\* process for room R if and only if at least one connection of the process is
\* currently bound to R; in particular a connection leaving, switching away
\* or closing does not remove the subscription while another connection
\* remains bound to R.
C21_SubscribedIffBound ==
  Quiescent =>
    \A roomId \in RoomIds :
      (roomId \in roomSubscriptions /\ roomId \in DOMAIN subscribers)
        <=> \E c \in Conns :
              BoundTo(c, roomId, connection, connections, rooms, readyState)

\* C22: at quiescence every User of every room's membership is the identity
\* of a live connection currently bound to that room.  A connection that
\* accounted for a second entry, or a closed connection that left an entry
\* behind, would own an entry that is not its current binding.
C22_MembersAreLiveConnections ==
  Quiescent =>
    \A roomId \in DOMAIN rooms : \A userId \in DOMAIN rooms[roomId] :
      \E c \in Conns :
        /\ c \in connections
        /\ readyState[c] = "OPEN"
        /\ connection[c].bound
        /\ connection[c].userId = userId
        /\ connection[c].roomId = roomId

\* C23: in every reachable state each user identity is in the membership of
\* at most one room.
C23_OneRoomPerIdentity ==
  \A r1 \in DOMAIN rooms : \A r2 \in DOMAIN rooms :
    r1 # r2 => DOMAIN rooms[r1] \cap DOMAIN rooms[r2] = {}

\* C25: once every handler of a closed connection has completed, the
\* connection is not in the connection table and its identity is in no
\* room's membership (unless another live connection of the same identity is
\* bound to that room).
C25_ClosedConnectionIsGone ==
  \A c \in Conns :
    (readyState[c] = "CLOSED" /\ ~pending[c].waiting) =>
      /\ c \notin connections
      /\ connection[c].bound =>
           \A roomId \in DOMAIN rooms :
             connection[c].userId \in DOMAIN rooms[roomId] =>
               \E d \in Conns \ {c} :
                 /\ BoundTo(d, roomId, connection, connections, rooms, readyState)
                 /\ connection[d].userId = connection[c].userId

\* C24: when a Backend Store call or the auth callback fails while a message
\* is handled, the sender is sent an error message, and the connection's
\* binding and every room's membership are as they were before the message;
\* in particular a join whose joinRoom fails leaves the connection Unbound.
C24_FailureChangesNothing ==
  [][\A ws \in Conns :
       (ev'.path = "failed" /\ ev'.ws = ws) =>
         /\ readyState[ws] = "OPEN" =>
              /\ Len(sent'[ws]) = 1
              /\ sent'[ws][1].type = "error"
         /\ connection'[ws] = connection[ws]
         /\ (ws \in connections') = (ws \in connections)
         /\ \A roomId \in RoomIds :
              UserIdsOf(MemGetUsers(rooms', roomId))
                = UserIdsOf(MemGetUsers(rooms, roomId))
         /\ (ev'.type = "join" /\ ev'.op = "joinRoom" /\ ~connection[ws].bound) =>
              ~connection'[ws].bound
    ]_vars

\* C26: when updateUser(R, u, ...) has run concurrently with leaveRoom(R, u)
\* and every call has completed, u is absent from R in both Backend Store
\* variants: getUsers(R) does not list u and no per-user entry of u is
\* stored for R.
C26_LeaveWinsOverUpdate ==
  \A roomId \in RoomIds : \A userId \in StoreUsers :
    (DOMAIN task = {} /\ userId \notin joined[roomId]) =>
      /\ userId \notin UserIdsOf(MemGetUsers(rooms, roomId))
      /\ userId \notin UserIdsOf(RedisGetUsers(redisUsers, redisMembers, roomId))
      /\ userId \notin DOMAIN redisUsers[roomId]

\* The fields that updateUser calls issued after the last joinRoom of
\* (roomId, userId) have set, with their values.
UpdatesSinceJoin(roomId, userId) ==
  LET mine == {i \in 1..Len(raceLog) :
                 raceLog[i].roomId = roomId /\ raceLog[i].userId = userId}
      joins == {i \in mine : raceLog[i].op = "joinRoom"}
      last == CHOOSE i \in joins : \A j \in joins : j <= i
  IN IF joins = {}
       THEN {}
       ELSE UNION {{<<f, raceLog[i].updates[f]>> : f \in DOMAIN raceLog[i].updates} :
                     i \in {j \in mine : j > last /\ raceLog[j].op = "updateUser"}}

\* C27: when updateUser calls for one (room, user), one setting cursor and
\* one setting typing, have been in flight together and every call has
\* completed, the stored User of a user that is still joined carries both
\* values, in both Backend Store variants.
C27_NoLostUpdate ==
  \A roomId \in RoomIds : \A userId \in StoreUsers :
    (DOMAIN task = {} /\ userId \in joined[roomId]) =>
      \A fv \in UpdatesSinceJoin(roomId, userId) :
        /\ userId \in DOMAIN rooms[roomId]
        /\ rooms[roomId][userId][fv[1]] = fv[2]
        /\ userId \in DOMAIN redisUsers[roomId]
        /\ JSONParse(redisUsers[roomId][userId])[fv[1]] = fv[2]

\* C28: in the local Backend Store, broadcast(R, m) invokes every callback
\* registered for R that does not throw, with m and in registration order,
\* also when another callback of R throws.
C28_ThrowingCallbackIsolated ==
  psEv.op = "broadcast" =>
    LET cbs == MemBroadcast(subscribers, psEv.roomId)
        healthy == SelectSeq(cbs, LAMBDA h : h \notin Throwing)
        reached == SelectSeq(invoked, LAMBDA v : v.handler \notin Throwing)
    IN /\ Len(reached) = Len(healthy)
       /\ \A i \in 1..Len(reached) :
            /\ reached[i].store = "memory"
            /\ reached[i].handler = healthy[i]
            /\ reached[i].message = psEv.message

====
